---- MODULE Spec2Model ----
(***************************************************************************)
(* Cross-boundary object proxy of the rusqlite experiment SPA:             *)
(*   spa/worker/handle-manager.ts  HandleManager (handle table)            *)
(*   spa/worker/wasm-worker.ts     handleMessage (worker dispatcher)       *)
(*   spa/worker/proxy.ts           sendRequest / handleWorkerMessage       *)
(* The controller and the worker are joined by two ordered channels.       *)
(***************************************************************************)
EXTENDS Integers, Sequences, FiniteSets, TLC

(* ------------------------------ bounds --------------------------------- *)

\* number of requests the controller sends in one run
MaxMessages == 5
\* number of create/delete/clear calls on the stand-alone handle table
MaxTableOps == 5
\* number of stray or duplicated responses the channel may deliver
MaxStray == 1
\* number of requests the controller sends in a short run (the runs checked
\* for liveness and the runs with stray responses)
MaxShortRun == 3
\* number of requests the controller has outstanding at once
MaxOutstanding == 2
\* number of requests sent in a run that goes through the proxy objects
MaxProxyCalls == 4
\* number of nodes in the cause chain of a thrown value
MaxChain == 3
\* number of requests sent in a run that changes two lists at once
MaxPairCalls == 6
\* number of items of a list taken through serializeTodoList
MaxItems == 2
\* number of requests sent in a run that draws on every request type
MaxAllRun == 4
\* number of requests sent in a run that makes several calls on one list
MaxBurstCalls == 6
\* number of requests sent in a run of the application state
MaxAppCalls == 6

(* ----------------------------- JS values ------------------------------- *)

\* the value of a missing payload field or Map entry
Undefined == 0

Truthy(v) == v # Undefined

(* ------------------- handle-manager.ts: HandleManager ------------------ *)

\* new HandleManager(): nextHandle = 1, instances = new Map()
NewHandleManager == [nextHandle |-> 1, instances |-> <<>>]

\* Map.get: undefined for a key that is not in the map
MapGet(m, k) == IF k \in DOMAIN m THEN m[k] ELSE Undefined

MapSet(m, k, v) == [x \in (DOMAIN m) \cup {k} |-> IF x = k THEN v ELSE m[x]]

MapDelete(m, k) == [x \in (DOMAIN m) \ {k} |-> m[x]]

\* mutant: create that hands out the lowest handle past the live count
createReuse(hm, instance) ==
    [handle |-> Cardinality(DOMAIN hm.instances) + 1,
     hm     |-> [nextHandle |-> hm.nextHandle + 1,
                 instances  |-> MapSet(hm.instances,
                                       Cardinality(DOMAIN hm.instances) + 1, instance)]]

\* create(instance): handle = nextHandle++; instances.set(handle, instance)
create(hm, instance) ==
    [handle |-> hm.nextHandle,
     hm     |-> [nextHandle |-> hm.nextHandle + 1,
                 instances  |-> MapSet(hm.instances, hm.nextHandle, instance)]]

\* mutant: get without its check, returning whatever the map has
getThrowsNever(hm, handle) == FALSE

\* get(handle) throws when instances.get(handle) is falsy
getThrows(hm, handle) == ~ Truthy(MapGet(hm.instances, handle))

get(hm, handle) == MapGet(hm.instances, handle)

has(hm, handle) == handle \in DOMAIN hm.instances

\* mutant: delete that reports the key but leaves it in the map
deleteKeeps(hm, handle) ==
    [result |-> handle \in DOMAIN hm.instances, hm |-> hm]

\* mutant: delete that reports success whatever the map had
deleteAlwaysTrue(hm, handle) ==
    [result |-> TRUE,
     hm     |-> [hm EXCEPT !.instances = MapDelete(hm.instances, handle)]]

\* delete(handle): the result of Map.delete, true iff the key existed
delete(hm, handle) ==
    [result |-> handle \in DOMAIN hm.instances,
     hm     |-> [hm EXCEPT !.instances = MapDelete(hm.instances, handle)]]

\* mutant: clear that also starts the handles again from 1
clearResets(hm) == NewHandleManager

clear(hm) == [hm EXCEPT !.instances = <<>>]

size(hm) == Cardinality(DOMAIN hm.instances)

(* --------------------------- state variables --------------------------- *)

VARIABLES
    worker,            \* proxy.ts: worker !== null
    nextMessageId,     \* proxy.ts: message id counter
    pendingRequests,   \* proxy.ts: MessageId -> the future its resolve/reject settle
    futures,           \* the promises made by sendRequest, in creation order
    delivered,         \* the value the last promise to be settled was settled with
    toWorker,          \* requests posted by the proxy, in send order
    toProxy,           \* responses posted by the worker, in completion order
    initialized,       \* wasm-worker.ts: initialized
    databaseHandles,   \* wasm-worker.ts: HandleManager<Database>
    todoListHandles,   \* wasm-worker.ts: HandleManager<TodoList>
    running,           \* handleMessage calls suspended at their awaited native call
    native,            \* the native module: objects made, lists freed, list revisions
    nativeCalls,       \* spy: number of native operations invoked
    tableReads,        \* spy: number of HandleManager.get calls made by the worker
    posted,            \* spy: MessageId -> number of responses the worker posted
    released,          \* spy: the list handles a TodoList.free was answered success for
    removed,           \* spy: MessageId -> number of pendingRequests.delete that removed
    strays,            \* number of stray responses delivered so far
    stray,             \* the last stray response delivered
    databases,         \* proxy.ts: the Database proxies made, each its handle
    lists,             \* proxy.ts: the TodoList proxies made, each [handle, snapshot]
    awaiting,          \* future -> the proxy method suspended at its await of it
                       \* (spy: with the proxy as it was when the method was called)
    lastCall,          \* spy: the last synchronous TodoList proxy method called
    codec,             \* a thrown value on its way through the error codec
    snap,              \* a list on its way through serializeTodoList and the proxy getters
    app,               \* AppState: currentList (0 for null) and the loadList calls in progress
    hm,                \* a stand-alone HandleManager
    hmLive,            \* handles returned by create on hm and not deleted since
    hmCalls,           \* number of calls made on hm
    hmLast,            \* the last call on hm and what it returned
    hmReturned,        \* spy: the handle the last create on hm returned (0: none yet)
    hmCreates,         \* spy: number of create calls on hm
    hmDeleted,         \* spy: number of delete calls on hm that returned true
    hmCleared          \* spy: number of instances clear calls removed from hm

facadeVars == <<databases, lists, awaiting, lastCall>>
proxyVars  == <<worker, nextMessageId, pendingRequests, futures, delivered,
                removed, strays, stray, facadeVars>>
workerVars == <<initialized, databaseHandles, todoListHandles, running, native,
                nativeCalls, tableReads, posted, released>>
hmVars     == <<hm, hmLive, hmCalls, hmLast, hmReturned, hmCreates, hmDeleted,
                hmCleared>>
vars       == <<proxyVars, toWorker, toProxy, workerVars, hmVars, codec, snap, app>>

(* ----------------------- types.ts: protocol values --------------------- *)

\* generateMessageId: `msg_${n}`
MessageIdOf(n) == "msg_" \o ToString(n)

\* the request types handleMessage has a case for
KnownTypes ==
    {"init", "Database.connect", "Database.decrypt_database",
     "Database.is_encrypted", "Database.set_key", "Database.name",
     "Database.readDatabaseFile", "Database.delete", "apply_schema",
     "TodoList.list_all", "TodoList.new", "TodoList.load", "TodoList.delete",
     "TodoList.save", "TodoList.add_item", "TodoList.remove_item",
     "TodoList.set_item_description", "TodoList.set_item_completed",
     "TodoList.free"}

\* cases that resolve payload.handle in todoListHandles
ListHandleTypes ==
    {"TodoList.save", "TodoList.add_item", "TodoList.remove_item",
     "TodoList.set_item_description", "TodoList.set_item_completed",
     "TodoList.free"}

\* cases that resolve payload.handle in databaseHandles
DbHandleTypes ==
    {"Database.decrypt_database", "Database.is_encrypted", "Database.set_key",
     "Database.name", "Database.readDatabaseFile", "Database.delete"}

\* cases that resolve payload.dbHandle in databaseHandles
DbDbHandleTypes ==
    {"apply_schema", "TodoList.list_all", "TodoList.new", "TodoList.load",
     "TodoList.delete", "TodoList.save", "TodoList.add_item",
     "TodoList.remove_item"}

\* cases whose native call is awaited
AwaitedTypes ==
    {"init", "Database.connect", "Database.is_encrypted", "Database.delete",
     "apply_schema", "TodoList.list_all", "TodoList.new", "TodoList.load",
     "TodoList.delete", "TodoList.save", "TodoList.add_item",
     "TodoList.remove_item"}

\* cases that put a new list in todoListHandles
ListCreateTypes == {"TodoList.new", "TodoList.load"}

\* cases whose native call changes the list instance
ListMutateTypes ==
    {"TodoList.add_item", "TodoList.remove_item",
     "TodoList.set_item_description", "TodoList.set_item_completed"}

\* mutant: a TodoList.save case that answers without a snapshot
SnapshotTypesNoSave == ListCreateTypes \cup ListMutateTypes

\* cases that answer with serializeTodoList(list)
SnapshotTypes == ListCreateTypes \cup (ListHandleTypes \ {"TodoList.free"})

\* A snapshot is the copy of a list: obj stands for the fields fixed when the
\* list is made (id, createdAt), rev for its children as they are after that
\* many changes (itemIds, items), title is its title.
NoSnapshot == [obj |-> 0, rev |-> 0, title |-> ""]

\* the titles the controller gives the lists it makes
Titles == {"groceries"}

\* the title of the lists found stored
StoredTitle == "groceries"

NoPayload == [handle |-> Undefined, snapshot |-> NoSnapshot]

(* ------------------- wasm-worker.ts: error codec ----------------------- *)

\* A thrown value is its cause chain, outermost first; each node has the
\* kind of value it is and its message.
JsError(message) == <<[kind |-> "Error", message |-> message]>>

NotInitializedMessage == "WASM not initialized"

InvalidHandleMessage(handle) ==
    "Invalid handle: " \o (IF handle = Undefined THEN "undefined" ELSE ToString(handle))

UnknownTypeMessage(type) == "Unknown message type: " \o type

\* values a failing native operation throws
NativeErrors ==
    {<<[kind |-> "Error", message |-> "save failed"],
       [kind |-> "Rust", message |-> "disk I/O error"]>>}

\* the outcome of a native call: <<>> is a normal return, else the value thrown
Outcomes == {<<>>} \cup NativeErrors

\* `err.cause ? ...` / `source ? ...`: an object is truthy, a string unless empty
TruthyValue(err) ==
    err # <<>> /\ (Head(err).kind = "String" => Head(err).message # "")

RECURSIVE serializeError(_)
\* serializeError: the node of the value (an Error: message and stack; a
\* {msg, source} object or Map: msg; a string: itself), then the nodes of
\* its cause when the cause is truthy
serializeError(err) ==
    LET node   == Head(err)
        source == Tail(err)
    IN  <<[message |-> node.message, stack |-> node.kind = "Error"]>>
        \o (IF TruthyValue(source) THEN serializeError(source) ELSE <<>>)

(* ------------------- wasm-worker.ts: snapshot codec -------------------- *)

\* reading a value that is not a list, or a list that was freed, throws
serializeThrows(nat, list) == list \notin DOMAIN nat.rev \/ list \in nat.freed

serializeTodoList(nat, list) ==
    [obj |-> list, rev |-> nat.rev[list], title |-> nat.title[list]]

FreedListError == JsError("null pointer passed to rust")

(* ------------------- wasm-worker.ts: handleMessage --------------------- *)

\* A response is its fields and, in keys, the properties its object literal
\* has: a case that answers `payload: undefined` has the property, with no
\* value, and the catch block has none.
\* a case's return: { id: request.id, success: true, payload: ... }
Success(id, payload) ==
    [id |-> id, success |-> TRUE, payload |-> payload, error |-> <<>>,
     keys |-> {"id", "success", "payload"}]

\* mutant: a catch block that also answers a payload
FailureWithPayload(id, err) ==
    [id |-> id, success |-> FALSE, payload |-> NoPayload, error |-> serializeError(err),
     keys |-> {"id", "success", "payload", "error"}]

\* the catch block: { id: request.id, success: false, error: serializeError(err) }
Failure(id, err) ==
    [id |-> id, success |-> FALSE, payload |-> NoPayload, error |-> serializeError(err),
     keys |-> {"id", "success", "error"}]

UsesDb(type) == type \in DbHandleTypes \cup DbDbHandleTypes

\* the payload field a case passes to databaseHandles.get
DbField(request) ==
    IF request.type \in DbHandleTypes
    THEN request.payload.handle
    ELSE request.payload.dbHandle

\* mutant: a case without its initialization check
NotInitializedNever == FALSE

\* if (!initialized) throw new Error('WASM not initialized')
NotInitialized == ~ initialized

\* mutant: a switch whose default forwards the request
DefaultCaseNever(type) == FALSE

\* the switch reaches `default` for a type no case names
DefaultCase(type) == type \notin KnownTypes

\* handleMessage from its entry to the native call of the case: the value
\* thrown (<<>> when none), the instances resolved and the get calls made
Prologue(request) ==
    LET type       == request.type
        usesList   == type \in ListHandleTypes
        listThrows == usesList /\ getThrows(todoListHandles, request.payload.handle)
        dbThrows   == UsesDb(type) /\ getThrows(databaseHandles, DbField(request))
        thrown(err, reads) == [err |-> err, list |-> 0, db |-> 0, reads |-> reads]
    IN  IF DefaultCase(type)
        THEN thrown(JsError(UnknownTypeMessage(type)), 0)
        ELSE IF type = "init"
        THEN thrown(<<>>, 0)
        ELSE IF NotInitialized
        THEN thrown(JsError(NotInitializedMessage), 0)
        ELSE IF listThrows
        THEN thrown(JsError(InvalidHandleMessage(request.payload.handle)), 1)
        ELSE IF dbThrows
        THEN thrown(JsError(InvalidHandleMessage(DbField(request))),
                    IF usesList THEN 2 ELSE 1)
        ELSE [err   |-> <<>>,
              list  |-> IF usesList THEN get(todoListHandles, request.payload.handle) ELSE 0,
              db    |-> IF UsesDb(type) THEN get(databaseHandles, DbField(request)) ELSE 0,
              reads |-> (IF usesList THEN 1 ELSE 0) + (IF UsesDb(type) THEN 1 ELSE 0)]

\* handleMessage after the native call of the case returned normally: the
\* worker state it leaves and the response it returns; getters is the
\* outcome of the native getters serializeTodoList calls on a live list
Epilogue(request, list, db, getters) ==
    LET type == request.type
        obj  == native.objects + 1
        same == [initialized     |-> initialized,
                 databaseHandles |-> databaseHandles,
                 todoListHandles |-> todoListHandles,
                 native          |-> native,
                 response        |-> Success(request.id, NoPayload)]
    IN  CASE type = "init" ->
               [same EXCEPT !.initialized = TRUE]
          [] type = "Database.connect" ->
               LET c == create(databaseHandles, obj)
               IN  [same EXCEPT
                      !.databaseHandles = c.hm,
                      !.native = [native EXCEPT !.objects = obj],
                      !.response = Success(request.id,
                          [handle |-> c.handle, snapshot |-> NoSnapshot])]
          [] type \in ListCreateTypes ->
               LET c   == create(todoListHandles, obj)
                   nat == [native EXCEPT !.objects = obj,
                                         !.rev = MapSet(@, obj, 0),
                                         !.title = MapSet(@, obj,
                                             IF type = "TodoList.new"
                                             THEN request.payload.title
                                             ELSE StoredTitle)]
               IN  [same EXCEPT
                      !.todoListHandles = c.hm,
                      !.native = nat,
                      !.response =
                          IF getters # <<>>
                          THEN Failure(request.id, getters)
                          ELSE Success(request.id,
                                   [handle |-> c.handle,
                                    snapshot |-> serializeTodoList(nat, obj)])]
          [] type \in SnapshotTypes \ ListCreateTypes ->
               LET nat == IF type \in ListMutateTypes
                          THEN [native EXCEPT !.rev[list] = @ + 1]
                          ELSE native
               IN  [same EXCEPT
                      !.native = nat,
                      !.response =
                          IF serializeThrows(nat, list)
                          THEN Failure(request.id, FreedListError)
                          ELSE IF getters # <<>>
                          THEN Failure(request.id, getters)
                          ELSE Success(request.id,
                                   [handle |-> Undefined,
                                    snapshot |-> serializeTodoList(nat, list)])]
          [] type = "TodoList.free" ->
               [same EXCEPT
                  !.native = [native EXCEPT !.freed = @ \cup {list}],
                  !.todoListHandles =
                      delete(todoListHandles, request.payload.handle).hm]
          [] OTHER -> same

\* mutant: a listener that posts only what handleMessage returns normally
PostOnlySuccess(response) ==
    IF response.success
    THEN /\ toProxy' = Append(toProxy, response)
         /\ posted' = MapSet(posted, response.id, MapGet(posted, response.id) + 1)
    ELSE UNCHANGED <<toProxy, posted>>

\* self.postMessage(response)
Post(response) ==
    /\ toProxy' = Append(toProxy, response)
    /\ posted' = MapSet(posted, response.id, MapGet(posted, response.id) + 1)

\* the rest of handleMessage once the native call has the given outcome
Finish(request, list, db, outcome) ==
    IF outcome # <<>>
    THEN /\ Post(Failure(request.id, outcome))
         /\ UNCHANGED <<initialized, databaseHandles, todoListHandles, native,
                        released>>
    ELSE \E getters \in IF request.type \in SnapshotTypes THEN Outcomes ELSE {<<>>} :
         LET e == Epilogue(request, list, db, getters)
         IN  /\ released' = IF request.type = "TodoList.free" /\ e.response.success
                            THEN released \cup {request.payload.handle}
                            ELSE released
             /\ initialized' = e.initialized
             /\ databaseHandles' = e.databaseHandles
             /\ todoListHandles' = e.todoListHandles
             /\ native' = e.native
             /\ Post(e.response)

\* the message listener takes the next request and runs handleMessage until
\* it returns or suspends at an awaited native call
WorkerReceive ==
    /\ toWorker # <<>>
    /\ toWorker' = Tail(toWorker)
    /\ LET request == Head(toWorker)
           p       == Prologue(request)
       IN  /\ tableReads' = tableReads + p.reads
           /\ IF p.err # <<>>
              THEN /\ Post(Failure(request.id, p.err))
                   /\ UNCHANGED <<initialized, databaseHandles, todoListHandles,
                                  native, running, nativeCalls, released>>
              ELSE /\ nativeCalls' = nativeCalls + 1
                   /\ IF request.type \in AwaitedTypes
                      THEN /\ running' = running \cup
                                  {[request |-> request, list |-> p.list, db |-> p.db]}
                           /\ UNCHANGED <<initialized, databaseHandles,
                                          todoListHandles, native, toProxy, posted,
                                          released>>
                      ELSE /\ \E outcome \in Outcomes :
                                  Finish(request, p.list, p.db, outcome)
                           /\ UNCHANGED running
    /\ UNCHANGED <<proxyVars, hmVars, codec, snap, app>>

\* an awaited native call settles and its handleMessage runs to its return
WorkerResume ==
    /\ \E frame \in running :
          /\ running' = running \ {frame}
          /\ \E outcome \in Outcomes :
                Finish(frame.request, frame.list, frame.db, outcome)
    /\ UNCHANGED <<toWorker, nativeCalls, tableReads, proxyVars, hmVars, codec, snap, app>>

(* --------------------------- proxy.ts: futures ------------------------- *)

NoError == [message |-> "", errorChain |-> <<>>, stack |-> FALSE]

\* new Promise((resolve, reject) => ...)
NewFuture == [state |-> "pending", calls |-> 0]

NothingDelivered == [future |-> 0, payload |-> NoPayload, error |-> NoError]

\* calling resolve / reject of promise i: only the first call settles it
resolve(fs, i) ==
    [fs EXCEPT ![i] =
        IF @.state = "pending"
        THEN [@ EXCEPT !.state = "resolved", !.calls = @ + 1]
        ELSE [@ EXCEPT !.calls = @ + 1]]

\* mutant: a failure branch that calls resolve
rejectResolves(fs, i) ==
    [fs EXCEPT ![i] =
        IF @.state = "pending"
        THEN [@ EXCEPT !.state = "resolved", !.calls = @ + 1]
        ELSE [@ EXCEPT !.calls = @ + 1]]

\* mutant: a failure that rejects every future still pending
rejectAll(fs, i) ==
    [j \in 1 .. Len(fs) |->
        IF fs[j].state = "pending"
        THEN [fs[j] EXCEPT !.state = "rejected", !.calls = @ + 1]
        ELSE IF j = i THEN [fs[j] EXCEPT !.calls = @ + 1] ELSE fs[j]]

reject(fs, i) ==
    [fs EXCEPT ![i] =
        IF @.state = "pending"
        THEN [@ EXCEPT !.state = "rejected", !.calls = @ + 1]
        ELSE [@ EXCEPT !.calls = @ + 1]]

\* the value promise i takes from this call of resolve or reject
Deliver(i, payload, error) ==
    delivered' = IF futures[i].state = "pending"
                 THEN [future |-> i, payload |-> payload, error |-> error]
                 ELSE delivered

(* ---------------------- proxy.ts: handleWorkerMessage ------------------ *)

RECURSIVE chainMessages(_)
\* while (current && current.message) { messages.push(...); current = current.cause }
chainMessages(current) ==
    IF current # <<>> /\ Head(current).message # ""
    THEN <<Head(current).message>> \o chainMessages(Tail(current))
    ELSE <<>>

\* mutant: an error without a message is given an empty chain
buildErrorChainEmpty(err) ==
    IF err = <<>> \/ Head(err).message = ""
    THEN [message |-> "Unknown error", fullChain |-> <<>>]
    ELSE LET messages == <<Head(err).message>> \o chainMessages(Tail(err))
         IN  [message |-> messages[1], fullChain |-> messages]

buildErrorChain(err) ==
    IF err = <<>> \/ Head(err).message = ""
    THEN [message |-> "Unknown error", fullChain |-> <<"Unknown error">>]
    ELSE LET messages == <<Head(err).message>> \o chainMessages(Tail(err))
         IN  [message |-> messages[1], fullChain |-> messages]

\* the Error the failure branch rejects with
ReconstructError(response) ==
    LET errorInfo == buildErrorChain(response.error)
    IN  [message    |-> errorInfo.message,
         errorChain |-> errorInfo.fullChain,
         stack      |-> response.error # <<>> /\ Head(response.error).stack]

\* mutant: responses matched to requests in arrival order
lookupPendingOldest(id) ==
    IF id \in DOMAIN pendingRequests
    THEN CHOOSE i \in {pendingRequests[k] : k \in DOMAIN pendingRequests} :
            \A k \in DOMAIN pendingRequests : i <= pendingRequests[k]
    ELSE Undefined

\* mutant: an unknown id falls back to the newest future
lookupPendingOrNewest(id) ==
    IF id \in DOMAIN pendingRequests THEN pendingRequests[id] ELSE Len(futures)

\* pendingRequests.get(response.id)
lookupPending(id) == MapGet(pendingRequests, id)

\* mutant: the record is left in the map when its response arrives
handleWorkerMessageKeeps(response) ==
    LET pending == lookupPending(response.id)
    IN  IF ~ Truthy(pending)
        THEN UNCHANGED <<pendingRequests, futures, delivered, removed>>
        ELSE /\ UNCHANGED <<pendingRequests, removed>>
             /\ IF response.success
                THEN /\ futures' = resolve(futures, pending)
                     /\ Deliver(pending, response.payload, NoError)
                ELSE /\ futures' = reject(futures, pending)
                     /\ Deliver(pending, NoPayload, ReconstructError(response))

handleWorkerMessage(response) ==
    LET pending == lookupPending(response.id)
    IN  IF ~ Truthy(pending)
        THEN UNCHANGED <<pendingRequests, futures, delivered, removed>>
        ELSE /\ pendingRequests' = MapDelete(pendingRequests, response.id)
             /\ removed' = MapSet(removed, response.id, MapGet(removed, response.id) + 1)
             /\ IF response.success
                THEN /\ futures' = resolve(futures, pending)
                     /\ Deliver(pending, response.payload, NoError)
                ELSE /\ futures' = reject(futures, pending)
                     /\ Deliver(pending, NoPayload, ReconstructError(response))

\* mutant: a proxy that keeps the snapshot of the call made last, dropping
\* the answer to a call when a later call on the proxy is still awaited
ContinueIssueOrder(response) ==
    LET pending == lookupPending(response.id)
    IN  /\ UNCHANGED lastCall
        /\ IF pending \notin DOMAIN awaiting
           THEN UNCHANGED <<databases, lists, awaiting>>
           ELSE LET method == awaiting[pending].method
                    list   == awaiting[pending].list
                IN  /\ awaiting' = MapDelete(awaiting, pending)
                    /\ databases' =
                          IF response.success /\ method = "Database.connect"
                          THEN Append(databases, response.payload.handle)
                          ELSE databases
                    /\ lists' =
                          IF ~ response.success
                          THEN lists
                          ELSE IF method \in ListCreateTypes
                          THEN Append(lists, [handle   |-> response.payload.handle,
                                              snapshot |-> response.payload.snapshot])
                          ELSE IF /\ method \in SnapshotTypes
                                  /\ \A later \in DOMAIN awaiting : later <= pending
                          THEN [lists EXCEPT ![list].snapshot = response.payload.snapshot]
                          ELSE lists

\* the proxy method suspended at its await of the future the response
\* settles: after a success it runs the statements that follow the await,
\* after a failure the await throws and the method ends
Continue(response) ==
    LET pending == lookupPending(response.id)
    IN  /\ UNCHANGED lastCall
        /\ IF pending \notin DOMAIN awaiting
           THEN UNCHANGED <<databases, lists, awaiting>>
           ELSE LET method == awaiting[pending].method
                    list   == awaiting[pending].list
                IN  /\ awaiting' = MapDelete(awaiting, pending)
                    /\ databases' =
                          IF response.success /\ method = "Database.connect"
                          THEN Append(databases, response.payload.handle)
                          ELSE databases
                    /\ lists' =
                          IF ~ response.success
                          THEN lists
                          ELSE IF method \in ListCreateTypes
                          THEN Append(lists, [handle   |-> response.payload.handle,
                                              snapshot |-> response.payload.snapshot])
                          ELSE IF method \in SnapshotTypes
                          THEN [lists EXCEPT ![list].snapshot = response.payload.snapshot]
                          ELSE lists

\* the worker's 'message' event: the next response reaches the proxy, and
\* the proxy method awaiting the future it settles runs on to its end
ProxyReceive ==
    /\ toProxy # <<>>
    /\ toProxy' = Tail(toProxy)
    /\ handleWorkerMessage(Head(toProxy))
    /\ Continue(Head(toProxy))
    /\ UNCHANGED <<worker, nextMessageId, strays, stray, toWorker, workerVars, hmVars, codec, snap, app>>

(* -------------------------- proxy.ts: sendRequest ---------------------- *)

\* mutant: an id made without the counter
generateMessageIdStuck == MessageIdOf(1)

generateMessageId == MessageIdOf(nextMessageId)

\* sendRequest with a worker present
sendRequest(type, payload) ==
    LET id == generateMessageId
    IN  /\ nextMessageId' = nextMessageId + 1
        /\ futures' = Append(futures, NewFuture)
        /\ pendingRequests' = MapSet(pendingRequests, id, Len(futures) + 1)
        /\ toWorker' = Append(toWorker, [id |-> id, type |-> type, payload |-> payload])

\* a payload with none of the fields the worker reads
NoFields == [handle |-> Undefined, dbHandle |-> Undefined, title |-> ""]

\* mutant: wasm_init without its `if (worker) throw`
wasm_initAgain ==
    /\ nextMessageId <= MaxMessages
    /\ worker' = TRUE
    /\ sendRequest("init", NoFields)
    /\ UNCHANGED <<delivered, removed, strays, stray, facadeVars, toProxy, workerVars,
                   hmVars, codec, snap, app>>

\* wasm_init: creates the worker and sends 'init'
wasm_init ==
    /\ ~ worker
    /\ worker' = TRUE
    /\ sendRequest("init", NoFields)
    /\ UNCHANGED <<delivered, removed, strays, stray, facadeVars, toProxy, workerVars,
                   hmVars, codec, snap, app>>

\* the handle values a payload names: every handle its table has given out
\* (live or released) and the next one, which no instance has yet
ListHandleChoices == 1 .. todoListHandles.nextHandle

DbHandleChoices == 1 .. databaseHandles.nextHandle

\* the payloads sent with a type: the handle fields its callers fill in
Payloads(type) ==
    [handle   : IF type \in ListHandleTypes THEN ListHandleChoices
                ELSE IF type \in DbHandleTypes THEN DbHandleChoices
                ELSE {Undefined},
     dbHandle : IF type \in DbDbHandleTypes THEN DbHandleChoices ELSE {Undefined},
     title    : IF type = "TodoList.new" THEN Titles ELSE {""}]

\* a type string handleMessage has no case for
UnknownType == "TodoList.rename"

\* the types sent: one for each shape of case in handleMessage (a database
\* made; a database read through payload.handle, synchronously and awaited;
\* a database used through payload.dbHandle; a list made; a list and a
\* database used, leaving the list as it is and changing it; a list changed
\* synchronously; a list freed) and a type with no case
SentTypes ==
    {"Database.connect", "Database.name", "Database.delete", "apply_schema",
     "TodoList.new", "TodoList.save", "TodoList.add_item",
     "TodoList.set_item_completed", "TodoList.free", UnknownType}

\* the types sent in the runs with stray responses: an awaited and a
\* synchronous case, answered with a success or a failure
StraySentTypes == {"Database.connect", "Database.name"}

\* a proxy method (or any caller of sendRequest) sends a request of one of
\* the types, the controller having sent at most limit requests before
SendUpTo(limit, types) ==
    /\ worker
    /\ nextMessageId <= limit
    /\ Cardinality(DOMAIN pendingRequests) < MaxOutstanding
    /\ \E type \in types : \E payload \in Payloads(type) :
          sendRequest(type, payload)
    /\ UNCHANGED <<worker, delivered, removed, strays, stray, facadeVars, toProxy,
                   workerVars, hmVars, codec, snap, app>>

SendRequest == SendUpTo(MaxMessages, SentTypes)

SendRequestShort == SendUpTo(MaxShortRun, SentTypes)

SendRequestStray == SendUpTo(MaxShortRun, StraySentTypes)

\* every type the proxy methods send after init, and a type with no case
AllSentTypes == (KnownTypes \ {"init"}) \cup {UnknownType}

SendRequestAll == SendUpTo(MaxAllRun, AllSentTypes)

NoStray ==
    [id |-> "", success |-> TRUE, payload |-> NoPayload, error |-> <<>>, keys |-> {}]

\* responses the channel may deliver besides the worker's own
StrayResponses ==
    {[id |-> MessageIdOf(n), success |-> s, payload |-> NoPayload,
      error |-> IF s THEN <<>> ELSE serializeError(JsError("stray")),
      keys |-> {"id", "success", IF s THEN "payload" ELSE "error"}]
        : n \in 1 .. nextMessageId, s \in BOOLEAN}

\* a response the worker did not post (a duplicate, or one never asked for)
StrayResponse ==
    /\ strays < MaxStray
    /\ strays' = strays + 1
    /\ \E response \in StrayResponses :
          /\ stray' = response
          /\ handleWorkerMessage(response)
          /\ Continue(response)
    /\ UNCHANGED <<worker, nextMessageId, toWorker, toProxy, workerVars, hmVars, codec, snap, app>>

(* -------------- proxy.ts: the Database and TodoList proxies ------------ *)

NoCall == [method |-> "", list |-> 0, result |-> NoSnapshot]

\* a static method has no proxy yet
NoProxy == [handle |-> Undefined, snapshot |-> NoSnapshot]

\* a proxy method calls sendRequest and suspends at its await of the
\* future, the controller having sent at most limit requests before
CallUpTo(limit, type, list, payload) ==
    /\ worker
    /\ nextMessageId <= limit
    /\ Cardinality(DOMAIN pendingRequests) < MaxOutstanding
    /\ sendRequest(type, payload)
    /\ awaiting' = MapSet(awaiting, Len(futures) + 1,
                           [method |-> type, list |-> list,
                            before |-> IF list = 0 THEN NoProxy ELSE lists[list]])
    /\ UNCHANGED <<worker, delivered, removed, strays, stray, databases, lists,
                   lastCall, toProxy, workerVars, hmVars, codec, snap, app>>

Call(type, list, payload) == CallUpTo(MaxProxyCalls, type, list, payload)

\* static Database.connect(name)
Database_connect == Call("Database.connect", 0, NoFields)

\* static TodoList.new(database, title)
TodoList_new ==
    \E d \in 1 .. Len(databases) : \E title \in Titles :
        Call("TodoList.new", 0,
             [NoFields EXCEPT !.dbHandle = databases[d], !.title = title])

\* static TodoList.load(database, id)
TodoList_load ==
    \E d \in 1 .. Len(databases) :
        Call("TodoList.load", 0, [NoFields EXCEPT !.dbHandle = databases[d]])

\* the request types of save, add_item, remove_item, set_item_description
\* and set_item_completed
ListMethodTypes == SnapshotTypes \ ListCreateTypes

\* save(database) .. set_item_completed(item_id, is_completed) on a proxy
TodoList_method ==
    \E p \in 1 .. Len(lists) : \E type \in ListMethodTypes :
        \E dbHandle \in IF type \in DbDbHandleTypes
                        THEN {databases[d] : d \in 1 .. Len(databases)}
                        ELSE {Undefined} :
            Call(type, p, [handle |-> lists[p].handle, dbHandle |-> dbHandle,
                           title |-> ""])

\* free() on a proxy: the request is sent and only its failure is looked at
TodoList_free ==
    \E p \in 1 .. Len(lists) :
        Call("TodoList.free", p, [NoFields EXCEPT !.handle = lists[p].handle])

\* the titles set_title is called with
TitleChoices == Titles \cup {"chores"}

\* set_title(title): this.snapshot.title = title
set_title ==
    /\ \E p \in 1 .. Len(lists) : \E title \in TitleChoices :
          /\ lists' = [lists EXCEPT ![p].snapshot.title = title]
          /\ lastCall' = [method |-> "set_title", list |-> p, result |-> NoSnapshot]
    /\ UNCHANGED <<worker, nextMessageId, pendingRequests, futures, delivered,
                   removed, strays, stray, databases, awaiting>>
    /\ UNCHANGED <<toWorker, toProxy, workerVars, hmVars, codec, snap, app>>

\* id(), title(), created_at(), item_ids(), item(item_id)
ReadAccessors == {"id", "title", "created_at", "item_ids", "item"}

\* what an accessor returns: the fields of the snapshot it reads
Read(accessor, snapshot) ==
    CASE accessor = "title" -> [NoSnapshot EXCEPT !.title = snapshot.title]
      [] accessor \in {"id", "created_at"} -> [NoSnapshot EXCEPT !.obj = snapshot.obj]
      [] OTHER -> [NoSnapshot EXCEPT !.obj = snapshot.obj, !.rev = snapshot.rev]

\* mutant: an accessor that asks the worker
AccessorRoundTrip(p, accessor) ==
    /\ lastCall' = [method |-> accessor, list |-> p,
                    result |-> Read(accessor, lists[p].snapshot)]
    /\ sendRequest("TodoList." \o accessor, [NoFields EXCEPT !.handle = lists[p].handle])
    /\ UNCHANGED <<worker, delivered, removed, strays, stray, databases, lists,
                   awaiting>>
    /\ UNCHANGED <<toProxy, workerVars, hmVars, codec, snap, app>>

\* a read-only accessor called on proxy p
Accessor(p, accessor) ==
    /\ lastCall' = [method |-> accessor, list |-> p,
                    result |-> Read(accessor, lists[p].snapshot)]
    /\ UNCHANGED <<worker, nextMessageId, pendingRequests, futures, delivered,
                   removed, strays, stray, databases, lists, awaiting>>
    /\ UNCHANGED <<toWorker, toProxy, workerVars, hmVars, codec, snap, app>>

TodoList_read ==
    \E p \in 1 .. Len(lists) : \E accessor \in ReadAccessors : Accessor(p, accessor)

(* --------------------- the application: AppState ----------------------- *)

\* new AppState(): currentList = null
NoApp == [currentList |-> 0, loading |-> 0]

\* a proxy method calls sendRequest and suspends at its await: what it
\* leaves of the counter, the futures, the pending map, the channel and the
\* suspended methods
Sent(st, type, list, payload) ==
    LET id == MessageIdOf(st.nextMessageId)
    IN  [nextMessageId   |-> st.nextMessageId + 1,
         futures         |-> Append(st.futures, NewFuture),
         pendingRequests |-> MapSet(st.pendingRequests, id, Len(st.futures) + 1),
         toWorker        |-> Append(st.toWorker,
                                    [id |-> id, type |-> type, payload |-> payload]),
         awaiting        |-> MapSet(st.awaiting, Len(st.futures) + 1,
                                    [method |-> type, list |-> list,
                                     before |-> IF list = 0 THEN NoProxy ELSE lists[list]])]

\* this.currentList.free() when currentList is set
FreeCurrent(st) ==
    IF app.currentList # 0
    THEN Sent(st, "TodoList.free", app.currentList,
              [NoFields EXCEPT !.handle = lists[app.currentList].handle])
    ELSE st

\* the controller has the sends of st made
Sends(st) ==
    /\ nextMessageId' = st.nextMessageId
    /\ futures' = st.futures
    /\ pendingRequests' = st.pendingRequests
    /\ toWorker' = st.toWorker
    /\ awaiting' = st.awaiting

BeforeSends ==
    [nextMessageId |-> nextMessageId, futures |-> futures,
     pendingRequests |-> pendingRequests, toWorker |-> toWorker,
     awaiting |-> awaiting]

\* the application awaits wasm_init and Database.connect before it loads
AppSetup ==
    /\ pendingRequests = <<>>
    /\ Len(databases) = 0
    /\ CallUpTo(MaxAppCalls, "Database.connect", 0, NoFields)

\* AppState.loadList(id) up to its await: the current list, if any, is
\* freed and stays in currentList, and TodoList.load is called
AppLoadList ==
    /\ worker
    /\ Len(databases) >= 1
    /\ nextMessageId < MaxAppCalls
    /\ Cardinality(DOMAIN pendingRequests) < MaxOutstanding
    /\ Sends(Sent(FreeCurrent(BeforeSends), "TodoList.load", 0,
                  [NoFields EXCEPT !.dbHandle = databases[1]]))
    /\ app' = [app EXCEPT !.loading = @ + 1]
    /\ UNCHANGED <<worker, delivered, removed, strays, stray, databases, lists,
                   lastCall, toProxy, workerVars, hmVars, codec, snap>>

\* AppState.unloadList(): the current list is freed and currentList = null
AppUnloadList ==
    /\ worker
    /\ app.currentList # 0
    /\ nextMessageId <= MaxAppCalls
    /\ Cardinality(DOMAIN pendingRequests) < MaxOutstanding
    /\ Sends(FreeCurrent(BeforeSends))
    /\ app' = [app EXCEPT !.currentList = 0]
    /\ UNCHANGED <<worker, delivered, removed, strays, stray, databases, lists,
                   lastCall, toProxy, workerVars, hmVars, codec, snap>>

\* a response reaches the proxy; when it settles the TodoList.load that
\* loadList awaits, loadList goes on: after a success it assigns the new
\* proxy to currentList, after a failure it throws and handleLoadList
\* catches, currentList being what it was
AppReceive ==
    /\ toProxy # <<>>
    /\ toProxy' = Tail(toProxy)
    /\ handleWorkerMessage(Head(toProxy))
    /\ Continue(Head(toProxy))
    /\ LET pending == lookupPending(Head(toProxy).id)
       IN  app' = IF pending \in DOMAIN awaiting
                     /\ awaiting[pending].method = "TodoList.load"
                  THEN [currentList |-> IF Head(toProxy).success
                                        THEN Len(lists) + 1
                                        ELSE app.currentList,
                        loading     |-> app.loading - 1]
                  ELSE app
    /\ UNCHANGED <<worker, nextMessageId, strays, stray, toWorker, workerVars,
                   hmVars, codec, snap>>

(* ------------ a controller that makes many calls on one list ---------- *)

\* the controller awaits wasm_init, Database.connect and TodoList.new or
\* TodoList.load, each before the next, until it has a database and a list
BurstSetup ==
    /\ pendingRequests = <<>>
    /\ Len(lists) < 1
    /\ IF Len(databases) = 0
       THEN CallUpTo(MaxBurstCalls, "Database.connect", 0, NoFields)
       ELSE \E type \in ListCreateTypes : \E title \in Titles :
               CallUpTo(MaxBurstCalls, type, 0,
                        [NoFields EXCEPT !.dbHandle = databases[1],
                                         !.title = IF type = "TodoList.new"
                                                   THEN title ELSE ""])

\* it then calls save, add_item, remove_item, set_item_description,
\* set_item_completed and free on the list, awaiting none of them
BurstCall ==
    /\ Len(lists) >= 1
    /\ \E type \in ListMethodTypes \cup {"TodoList.free"} :
          CallUpTo(MaxBurstCalls, type, 1,
                   [handle   |-> lists[1].handle,
                    dbHandle |-> IF type \in DbDbHandleTypes
                                 THEN databases[1] ELSE Undefined,
                    title    |-> ""])

(* ------------- a controller that changes two lists at once ------------ *)

\* the controller awaits wasm_init, Database.connect and TodoList.new, each
\* before the next, until it has a database and two lists
PairSetup ==
    /\ pendingRequests = <<>>
    /\ Len(lists) < 2
    /\ IF Len(databases) = 0
       THEN CallUpTo(MaxPairCalls, "Database.connect", 0, NoFields)
       ELSE \E title \in Titles :
               CallUpTo(MaxPairCalls, "TodoList.new", 0,
                        [NoFields EXCEPT !.dbHandle = databases[1], !.title = title])

\* it then calls add_item, remove_item, set_item_description or
\* set_item_completed on each list, without awaiting the other call
PairMutate ==
    /\ Len(lists) >= 2
    /\ \E p \in 1 .. 2 : \E type \in ListMutateTypes :
          /\ \A i \in DOMAIN awaiting : awaiting[i].list # p
          /\ CallUpTo(MaxPairCalls, type, p,
                      [handle   |-> lists[p].handle,
                       dbHandle |-> IF type \in DbDbHandleTypes
                                    THEN databases[1] ELSE Undefined,
                       title    |-> ""])

(* ------------------- the error codec on its own ------------------------ *)

\* the messages of the nodes of a thrown value
Messages == {"", "save failed", "disk I/O error"}

\* the nodes a thrown value is made of: an Error, a {msg, source} object
\* as the native module throws it, a string
ObjectNodes == [kind : {"Error", "Rust"}, message : Messages]

StringNodes == [kind : {"String"}, message : Messages]

RECURSIVE ChainsOf(_)
\* the values with a cause chain of n nodes: a string has no cause
ChainsOf(n) ==
    IF n = 1
    THEN {<<node>> : node \in ObjectNodes \cup StringNodes}
    ELSE {<<node>> \o rest : node \in ObjectNodes, rest \in ChainsOf(n - 1)}

ThrownValues == UNION {ChainsOf(n) : n \in 1 .. MaxChain}

NoCodec == [stage |-> "idle", thrown |-> <<>>, response |-> NoStray, error |-> NoError]

\* the catch block of handleMessage makes the failure response
CodecSerialize ==
    /\ codec.stage = "thrown"
    /\ codec' = [codec EXCEPT !.stage = "serialized",
                              !.response = Failure(MessageIdOf(1), codec.thrown)]
    /\ UNCHANGED <<proxyVars, toWorker, toProxy, workerVars, hmVars, snap, app>>

\* the failure branch of handleWorkerMessage makes the Error it rejects with
CodecReconstruct ==
    /\ codec.stage = "serialized"
    /\ codec' = [codec EXCEPT !.stage = "rebuilt",
                              !.error = ReconstructError(codec.response)]
    /\ UNCHANGED <<proxyVars, toWorker, toProxy, workerVars, hmVars, snap, app>>

(* ------------------- the snapshot codec on its own --------------------- *)

\* a large item id (item ids are the elements of a Uint32Array)
LargeId == 2147483647

\* new Uint32Array(values): each value is taken modulo 2^32, which leaves
\* the elements of a Uint32Array, all below 2^32, as they are
ToUint32(n) == IF n >= 0 THEN n ELSE n + LargeId + LargeId + 2

ItemIdChoices == {1, 2, LargeId}

ListIdChoices == {1, 2}

ListTitles == {"", "groceries"}

Descriptions == {"", "milk"}

Timestamps == {1700000000}

\* the items a native list with that id can hold
NativeItems(listId) ==
    [id : ItemIdChoices, listId : {listId}, description : Descriptions,
     isCompleted : BOOLEAN, createdAt : Timestamps]

RECURSIVE ItemSeqs(_, _)
\* the item sequences of length n of a native list: every id once
ItemSeqs(listId, n) ==
    IF n = 0
    THEN {<<>>}
    ELSE {Append(q[1], q[2]) :
            q \in {r \in ItemSeqs(listId, n - 1) \X NativeItems(listId) :
                      \A k \in 1 .. Len(r[1]) : r[1][k].id # r[2].id}}

\* the states of a native TodoList: its fields and its items in order
ListStates ==
    UNION {[id : {listId}, title : ListTitles, createdAt : Timestamps,
            items : UNION {ItemSeqs(listId, n) : n \in 0 .. MaxItems}] :
             listId \in ListIdChoices}

NoList == [id |-> 0, title |-> "", createdAt |-> 0, items |-> <<>>]

\* list.item_ids()
list_item_ids(list) == [k \in 1 .. Len(list.items) |-> list.items[k].id]

\* mutant: a list.item that finds no item for the ids past the first
list_itemFirstOnly(list, itemId) ==
    SelectSeq(list.items, LAMBDA item : item.id = itemId /\ item.id = list.items[1].id)

\* list.item(itemId): the item with that id, <<>> for undefined
list_item(list, itemId) == SelectSeq(list.items, LAMBDA item : item.id = itemId)

\* the SerializedItem literal: one native getter per field
SerializedItemOf(item) ==
    [id          |-> item.id,
     listId      |-> item.listId,
     description |-> item.description,
     isCompleted |-> item.isCompleted,
     createdAt   |-> item.createdAt]

NoSerialized == [id |-> 0, title |-> "", createdAt |-> 0, itemIds |-> <<>>, items |-> <<>>]

NoSnap ==
    [stage |-> "idle", list |-> NoList, next |-> 1, held |-> {}, obtained |-> 0,
     snapshot |-> NoSerialized, read |-> NoSerialized]

\* serializeTodoList up to its loop: id, title, createdAt and itemIds are
\* read from the list, and any of these native getters may throw
SerializeEnter ==
    /\ snap.stage = "called"
    /\ \E thrown \in BOOLEAN :
          snap' = IF thrown
                  THEN [snap EXCEPT !.stage = "threw"]
                  ELSE [snap EXCEPT
                          !.stage = "loop",
                          !.snapshot = [id        |-> snap.list.id,
                                        title     |-> snap.list.title,
                                        createdAt |-> snap.list.createdAt,
                                        itemIds   |-> list_item_ids(snap.list),
                                        items     |-> <<>>]]
    /\ UNCHANGED <<proxyVars, toWorker, toProxy, workerVars, hmVars, codec, app>>

\* one turn of the loop: the item is obtained, its fields are copied by its
\* getters - any of which may throw - and it is freed
SerializeItem ==
    /\ snap.stage = "loop"
    /\ snap.next <= Len(snap.snapshot.itemIds)
    /\ LET itemId == snap.snapshot.itemIds[snap.next]
           item   == list_item(snap.list, itemId)
       IN  IF item = <<>>
           THEN snap' = [snap EXCEPT !.next = @ + 1]
           ELSE \E thrown \in BOOLEAN :
                   snap' = IF thrown
                           THEN [snap EXCEPT !.stage = "threw",
                                             !.obtained = @ + 1,
                                             !.held = @ \cup {itemId}]
                           ELSE [snap EXCEPT
                                   !.next = @ + 1,
                                   !.obtained = @ + 1,
                                   !.snapshot.items =
                                       MapSet(@, itemId, SerializedItemOf(item[1]))]
    /\ UNCHANGED <<proxyVars, toWorker, toProxy, workerVars, hmVars, codec, app>>

\* return { id, title, createdAt, itemIds, items }
SerializeReturn ==
    /\ snap.stage = "loop"
    /\ snap.next > Len(snap.snapshot.itemIds)
    /\ snap' = [snap EXCEPT !.stage = "returned"]
    /\ UNCHANGED <<proxyVars, toWorker, toProxy, workerVars, hmVars, codec, app>>

\* mutant: an Item whose list_id() returns its id
ItemOfIdForListId(data) ==
    [id          |-> data.id,
     listId      |-> data.id,
     description |-> data.description,
     isCompleted |-> data.isCompleted,
     createdAt   |-> data.createdAt]

\* new Item(data) read through id(), list_id(), description(),
\* is_completed() and created_at()
ItemOf(data) ==
    [id          |-> data.id,
     listId      |-> data.listId,
     description |-> data.description,
     isCompleted |-> data.isCompleted,
     createdAt   |-> data.createdAt]

\* TodoList.item(item_id) of the proxy: <<>> for undefined
proxy_item(snapshot, item_id) ==
    IF item_id \in DOMAIN snapshot.items
    THEN <<ItemOf(snapshot.items[item_id])>>
    ELSE <<>>

\* the snapshot arrives as the worker made it (postMessage copies plain
\* data) and the controller reads it through every getter of the proxy
ProxyGetters ==
    /\ snap.stage = "returned"
    /\ snap' = [snap EXCEPT
                  !.stage = "read",
                  !.read = [id        |-> snap.snapshot.id,
                            title     |-> snap.snapshot.title,
                            createdAt |-> snap.snapshot.createdAt,
                            itemIds   |-> [k \in 1 .. Len(snap.snapshot.itemIds) |->
                                              ToUint32(snap.snapshot.itemIds[k])],
                            items     |-> [item_id \in ItemIdChoices |->
                                              proxy_item(snap.snapshot, item_id)]]]
    /\ UNCHANGED <<proxyVars, toWorker, toProxy, workerVars, hmVars, codec, app>>

(* ---------------------- stand-alone handle table ----------------------- *)

\* instances stored in a table are objects made by the native module
TableInstances == 1 .. 2

TableHandles == 1 .. (MaxTableOps + 1)

HMCreate ==
    /\ hmCalls < MaxTableOps
    /\ \E instance \in TableInstances :
          LET c == create(hm, instance)
          IN  /\ hm' = c.hm
              /\ hmLive' = hmLive \cup {c.handle}
              /\ hmLast' = [op |-> "create", handle |-> c.handle, ok |-> TRUE,
                            value |-> instance]
              /\ hmReturned' = c.handle
    /\ hmCalls' = hmCalls + 1
    /\ hmCreates' = hmCreates + 1
    /\ UNCHANGED <<hmDeleted, hmCleared>>
    /\ UNCHANGED <<proxyVars, toWorker, toProxy, workerVars, codec, snap, app>>

HMDelete ==
    /\ hmCalls < MaxTableOps
    /\ \E handle \in TableHandles :
          LET d == delete(hm, handle)
          IN  /\ hm' = d.hm
              /\ hmLive' = hmLive \ {handle}
              /\ hmLast' = [op |-> "delete", handle |-> handle, ok |-> d.result,
                            value |-> Undefined]
              /\ hmDeleted' = hmDeleted + (IF d.result THEN 1 ELSE 0)
    /\ hmCalls' = hmCalls + 1
    /\ UNCHANGED <<hmReturned, hmCreates, hmCleared>>
    /\ UNCHANGED <<proxyVars, toWorker, toProxy, workerVars, codec, snap, app>>

HMClear ==
    /\ hmCalls < MaxTableOps
    /\ hm' = clear(hm)
    /\ hmLive' = {}
    /\ hmLast' = [op |-> "clear", handle |-> Undefined, ok |-> TRUE, value |-> Undefined]
    /\ hmCalls' = hmCalls + 1
    /\ hmCleared' = hmCleared + size(hm)
    /\ UNCHANGED <<hmReturned, hmCreates, hmDeleted>>
    /\ UNCHANGED <<proxyVars, toWorker, toProxy, workerVars, codec, snap, app>>

\* get, has and size leave the table as it is
HMGet ==
    /\ \E handle \in TableHandles :
          hmLast' = [op |-> "get", handle |-> handle, ok |-> ~ getThrows(hm, handle),
                     value |-> IF getThrows(hm, handle) THEN Undefined ELSE get(hm, handle)]
    /\ UNCHANGED <<hm, hmLive, hmCalls, hmReturned, hmCreates, hmDeleted, hmCleared>>
    /\ UNCHANGED <<proxyVars, toWorker, toProxy, workerVars, codec, snap, app>>

HMHas ==
    /\ \E handle \in TableHandles :
          hmLast' = [op |-> "has", handle |-> handle, ok |-> has(hm, handle),
                     value |-> Undefined]
    /\ UNCHANGED <<hm, hmLive, hmCalls, hmReturned, hmCreates, hmDeleted, hmCleared>>
    /\ UNCHANGED <<proxyVars, toWorker, toProxy, workerVars, codec, snap, app>>

HMSize ==
    /\ hmLast' = [op |-> "size", handle |-> Undefined, ok |-> TRUE, value |-> size(hm)]
    /\ UNCHANGED <<hm, hmLive, hmCalls, hmReturned, hmCreates, hmDeleted, hmCleared>>
    /\ UNCHANGED <<proxyVars, toWorker, toProxy, workerVars, codec, snap, app>>

(* --------------------------- specifications ---------------------------- *)

\* the program after its modules are loaded
InitProgram ==
    /\ worker = FALSE
    /\ nextMessageId = 1
    /\ pendingRequests = <<>>
    /\ futures = <<>>
    /\ delivered = NothingDelivered
    /\ toWorker = <<>>
    /\ toProxy = <<>>
    /\ initialized = FALSE
    /\ databaseHandles = NewHandleManager
    /\ todoListHandles = NewHandleManager
    /\ running = {}
    /\ native = [objects |-> 0, freed |-> {}, rev |-> <<>>, title |-> <<>>]
    /\ databases = <<>>
    /\ lists = <<>>
    /\ awaiting = <<>>
    /\ lastCall = NoCall
    /\ nativeCalls = 0
    /\ tableReads = 0
    /\ posted = <<>>
    /\ released = {}
    /\ removed = <<>>
    /\ strays = 0
    /\ stray = NoStray
    /\ hm = NewHandleManager
    /\ hmLive = {}
    /\ hmCalls = 0
    /\ hmLast = [op |-> "new", handle |-> Undefined, ok |-> TRUE, value |-> Undefined]
    /\ hmReturned = 0
    /\ hmCreates = 0
    /\ hmDeleted = 0
    /\ hmCleared = 0

Init ==
    /\ InitProgram
    /\ codec = NoCodec
    /\ snap = NoSnap
    /\ app = NoApp

\* the controller and the worker
Next ==
    \/ wasm_init
    \/ SendRequest
    \/ WorkerReceive
    \/ WorkerResume
    \/ ProxyReceive

Spec == Init /\ [][Next]_vars

\* a shorter run of the same
NextShort ==
    \/ wasm_init
    \/ SendRequestShort
    \/ WorkerReceive
    \/ WorkerResume
    \/ ProxyReceive

\* with the event loop never starving a ready handler and every awaited
\* native call settling
SpecFair ==
    /\ Init
    /\ [][NextShort]_vars
    /\ WF_vars(WorkerReceive)
    /\ WF_vars(WorkerResume)
    /\ WF_vars(ProxyReceive)

\* a short run in which the proxy also gets responses the worker did not post
NextStray ==
    \/ wasm_init
    \/ SendRequestStray
    \/ WorkerReceive
    \/ WorkerResume
    \/ ProxyReceive
    \/ StrayResponse

SpecStray == Init /\ [][NextStray]_vars

\* the controller working through the proxy objects
NextProxy ==
    \/ wasm_init
    \/ Database_connect
    \/ TodoList_new
    \/ TodoList_load
    \/ TodoList_method
    \/ TodoList_free
    \/ set_title
    \/ TodoList_read
    \/ WorkerReceive
    \/ WorkerResume
    \/ ProxyReceive

SpecProxy == Init /\ [][NextProxy]_vars

\* the application loading and unloading lists
NextApp ==
    \/ wasm_init
    \/ AppSetup
    \/ AppLoadList
    \/ AppUnloadList
    \/ WorkerReceive
    \/ WorkerResume
    \/ AppReceive

SpecApp == Init /\ [][NextApp]_vars

\* the controller making several calls on one list before their answers
NextBurst ==
    \/ wasm_init
    \/ BurstSetup
    \/ BurstCall
    \/ WorkerReceive
    \/ WorkerResume
    \/ ProxyReceive

SpecBurst == Init /\ [][NextBurst]_vars

\* the controller changing two lists at once, the event loops fair
NextPair ==
    \/ wasm_init
    \/ PairSetup
    \/ PairMutate
    \/ WorkerReceive
    \/ WorkerResume
    \/ ProxyReceive

SpecPair ==
    /\ Init
    /\ [][NextPair]_vars
    /\ WF_vars(WorkerReceive)
    /\ WF_vars(WorkerResume)
    /\ WF_vars(ProxyReceive)

\* a short run that draws on every request type
NextAll ==
    \/ wasm_init
    \/ SendRequestAll
    \/ WorkerReceive
    \/ WorkerResume
    \/ ProxyReceive

SpecAll == Init /\ [][NextAll]_vars

\* a thrown value taken through serializeError and buildErrorChain
InitErr ==
    /\ InitProgram
    /\ codec \in {[NoCodec EXCEPT !.stage = "thrown", !.thrown = err] :
                    err \in ThrownValues}
    /\ snap = NoSnap
    /\ app = NoApp

NextErr ==
    \/ CodecSerialize
    \/ CodecReconstruct

SpecErr == InitErr /\ [][NextErr]_vars

\* a list taken through serializeTodoList and read back through the proxy
InitSnap ==
    /\ InitProgram
    /\ codec = NoCodec
    /\ snap \in {[NoSnap EXCEPT !.stage = "called", !.list = list] : list \in ListStates}
    /\ app = NoApp

NextSnap ==
    \/ SerializeEnter
    \/ SerializeItem
    \/ SerializeReturn
    \/ ProxyGetters

SpecSnap == InitSnap /\ [][NextSnap]_vars

\* the handle table on its own, under every sequence of calls
NextHM ==
    \/ HMCreate
    \/ HMDelete
    \/ HMClear
    \/ HMGet
    \/ HMHas
    \/ HMSize

SpecHM == Init /\ [][NextHM]_vars

(* ------------------------- helpers of the claims ----------------------- *)

\* the worker's listener takes a request in this step
ReceiveStep == Len(toWorker') < Len(toWorker)

\* the proxy's handler takes a response in this step
ArrivalStep == Len(toProxy') < Len(toProxy) \/ strays' > strays

\* the response handleWorkerMessage is given in an ArrivalStep
Arrived == IF Len(toProxy') < Len(toProxy) THEN Head(toProxy) ELSE stray'

\* the handles a request names that are absent from their table
AbsentHandles(request) ==
    {h \in {request.payload.handle} :
        request.type \in ListHandleTypes /\ ~ has(todoListHandles, h)}
    \cup
    {h \in {DbField(request)} :
        UsesDb(request.type) /\ ~ has(databaseHandles, h)}

\* this step posts exactly one response, a failure for the request, with
\* one of the messages
PostsFailure(request, messages) ==
    /\ Len(toProxy') = Len(toProxy) + 1
    /\ LET response == toProxy'[Len(toProxy')]
       IN  /\ response.id = request.id
           /\ ~ response.success
           /\ response.error # <<>>
           /\ response.error[1].message \in messages

TablesUnchanged == UNCHANGED <<databaseHandles, todoListHandles>>

SentIds == {MessageIdOf(n) : n \in 1 .. (nextMessageId - 1)}

InvalidHandleMessages == {InvalidHandleMessage(h) : h \in 0 .. (MaxMessages + 1)}

(* -------------------------------- claims ------------------------------- *)

\* C1 (as stated): a request that names a handle absent from its table is
\* answered with the invalid-handle failure, no native operation is invoked
\* and the handle tables and the instances stay as they are.
C1_AbsentHandleIsInvalidHandle ==
    [][ReceiveStep /\ AbsentHandles(Head(toWorker)) # {}
         => /\ PostsFailure(Head(toWorker),
                  {InvalidHandleMessage(h) : h \in AbsentHandles(Head(toWorker))})
            /\ nativeCalls' = nativeCalls
            /\ TablesUnchanged
            /\ UNCHANGED <<native, initialized, running>>]_vars

\* C1 (amended): a request that names a handle absent from its table is
\* answered with a failure - the invalid-handle failure once the worker is
\* initialized, the not-initialized failure before - and no native operation
\* is invoked and the handle tables and the instances stay as they are.
C1_AbsentHandleFails ==
    [][ReceiveStep /\ AbsentHandles(Head(toWorker)) # {}
         => /\ PostsFailure(Head(toWorker),
                  IF initialized
                  THEN {InvalidHandleMessage(h) : h \in AbsentHandles(Head(toWorker))}
                  ELSE {NotInitializedMessage})
            /\ nativeCalls' = nativeCalls
            /\ TablesUnchanged
            /\ UNCHANGED <<native, initialized, running>>]_vars

\* C1 witness: a list was freed and a request was answered "Invalid handle".
C1_Witness ==
    /\ native.freed # {}
    /\ \E i \in 1 .. Len(toProxy) :
          /\ ~ toProxy[i].success
          /\ toProxy[i].error[1].message \in InvalidHandleMessages
    /\ nativeCalls >= 4

\* C2 (as stated): while initialized is false every request whose type is not
\* 'init' is answered with the not-initialized failure, and no handle table
\* is read or modified.
C2_UninitializedAlwaysNotInitialized ==
    [][ReceiveStep /\ ~ initialized /\ Head(toWorker).type # "init"
         => /\ PostsFailure(Head(toWorker), {NotInitializedMessage})
            /\ tableReads' = tableReads
            /\ TablesUnchanged]_vars

\* C2 (amended): while initialized is false every request of a type the
\* dispatcher knows, other than 'init', is answered with the not-initialized
\* failure and a request of a type it does not know with the unknown-type
\* failure; in both cases no handle table is read or modified.
C2_UninitializedFailsFast ==
    [][ReceiveStep /\ ~ initialized /\ Head(toWorker).type # "init"
         => /\ PostsFailure(Head(toWorker),
                  IF Head(toWorker).type \in KnownTypes
                  THEN {NotInitializedMessage}
                  ELSE {UnknownTypeMessage(Head(toWorker).type)})
            /\ tableReads' = tableReads
            /\ nativeCalls' = nativeCalls
            /\ TablesUnchanged]_vars

\* C2 witness: the worker, still uninitialized, has answered a request with
\* the not-initialized failure.
C2_Witness ==
    /\ ~ initialized
    /\ \E i \in 1 .. Len(toProxy) :
          /\ ~ toProxy[i].success
          /\ toProxy[i].error[1].message = NotInitializedMessage
    /\ tableReads = 0

\* C3: the worker never begins handling a request while the handling of an
\* earlier one is suspended at its awaited native call.
C3_OneRequestAtATime ==
    [][ReceiveStep => running = {}]_vars

C5_ResponseMatchesOneRequest ==
    \A id \in DOMAIN posted :
        /\ posted[id] = 1
        /\ id \in SentIds
        /\ \A i \in 1 .. Len(toWorker) : toWorker[i].id # id
        /\ \A frame \in running : frame.request.id # id
        /\ \A i \in 1 .. Len(toWorker) : \A j \in 1 .. Len(toWorker) :
              toWorker[i].id = toWorker[j].id => i = j

\* C5 witness: two requests are outstanding, one answered and one not.
C5_Witness ==
    /\ Cardinality(DOMAIN posted) >= 2
    /\ Len(toProxy) >= 1
    /\ running # {}

\* C6: a response that arrives for a registered id settles the future made
\* by the sendRequest call that minted that id - resolved with the payload
\* or rejected - and no other future, whatever the order of arrival.
C6_ResponseSettlesOwnFuture ==
    [][ArrivalStep /\ Arrived.id \in DOMAIN pendingRequests
         => \E n \in 1 .. Len(futures) :
               /\ MessageIdOf(n) = Arrived.id
               /\ futures[n].state = "pending"
               /\ futures'[n].state = IF Arrived.success THEN "resolved" ELSE "rejected"
               /\ delivered'.future = n
               /\ Arrived.success => delivered'.payload = Arrived.payload
               /\ ~ Arrived.success =>
                     delivered'.error.errorChain[1] = Arrived.error[1].message
               /\ \A m \in 1 .. Len(futures) : m # n => futures'[m] = futures[m]]_vars

\* C6 witness: a later request's future is settled while an earlier one's is
\* still pending.
C6_Witness ==
    \E i \in 1 .. Len(futures) : \E j \in 1 .. Len(futures) :
        /\ i < j
        /\ futures[i].state = "pending"
        /\ futures[j].state = "resolved"
        /\ MessageIdOf(i) \in DOMAIN pendingRequests

\* C7: a response whose id is not in the pending map settles no future and
\* leaves the map as it is.
C7_UnknownIdDropped ==
    [][ArrivalStep /\ Arrived.id \notin DOMAIN pendingRequests
         => UNCHANGED <<pendingRequests, futures, delivered, removed>>]_vars

\* C7 witness: a response with an id no request ever had was delivered while
\* a request was pending.
C7_Witness ==
    /\ strays > 0
    /\ stray.id \notin SentIds
    /\ pendingRequests # <<>>

\* C8: a failure response rejects the future registered under its id, with
\* the first message of its chain, and changes no other future; a pending
\* future is settled only by the arrival of the response with its own id.
C8_FailureRejectsOnlyItsFuture ==
    [][/\ (ArrivalStep /\ ~ Arrived.success /\ Arrived.id \in DOMAIN pendingRequests)
          => LET i == pendingRequests[Arrived.id]
             IN  /\ futures'[i].state = "rejected"
                 /\ delivered'.future = i
                 /\ delivered'.error.message = Arrived.error[1].message
                 /\ \A j \in 1 .. Len(futures) : j # i => futures'[j] = futures[j]
                 /\ DOMAIN pendingRequests' = DOMAIN pendingRequests \ {Arrived.id}
                 /\ \A id \in DOMAIN pendingRequests' :
                       pendingRequests'[id] = pendingRequests[id]
       /\ \A j \in 1 .. Len(futures) :
             (futures[j].state = "pending" /\ futures'[j].state # "pending")
             => /\ ArrivalStep
                /\ Arrived.id \in DOMAIN pendingRequests
                /\ pendingRequests[Arrived.id] = j]_vars

\* C8 witness: one future is rejected while another, sent before it, is
\* still pending and registered.
C8_Witness ==
    \E i \in 1 .. Len(futures) : \E j \in 1 .. Len(futures) :
        /\ i < j
        /\ futures[j].state = "rejected"
        /\ futures[i].state = "pending"
        /\ MapGet(pendingRequests, MessageIdOf(i)) = i

\* C9: a pending record is removed once, by the arrival of a response with
\* its id, and then stays out of the map; every future has resolve or reject
\* called at most once; a further response with the same id changes nothing.
C9_RemovedAndSettledOnce ==
    /\ [](/\ \A id \in DOMAIN removed :
                removed[id] = 1 /\ id \notin DOMAIN pendingRequests
          /\ \A i \in 1 .. Len(futures) :
                /\ futures[i].calls <= 1
                /\ futures[i].state = "pending" <=> futures[i].calls = 0
                /\ futures[i].state = "pending" <=> MessageIdOf(i) \in DOMAIN pendingRequests)
    /\ [][/\ \A id \in DOMAIN pendingRequests :
                id \notin DOMAIN pendingRequests' => ArrivalStep /\ Arrived.id = id
          /\ (ArrivalStep /\ Arrived.id \in DOMAIN removed)
                => UNCHANGED <<pendingRequests, futures, delivered, removed>>]_vars

\* C9 witness: two responses with one id have both arrived, and the record
\* was removed and the future settled once.
C9_Witness ==
    /\ strays > 0
    /\ MapGet(posted, stray.id) = 1
    /\ \A i \in 1 .. Len(toProxy) : toProxy[i].id # stray.id
    /\ MapGet(removed, stray.id) = 1
    /\ \E i \in 1 .. Len(futures) :
          MessageIdOf(i) = stray.id /\ futures[i].calls = 1

\* C10: on a handle table, get succeeds exactly for the handles a create
\* returned that were not deleted since, and returns the instance stored;
\* get of a handle just deleted throws.
C10_GetSucceedsIffLive ==
    /\ \A h \in TableHandles : ~ getThrows(hm, h) <=> h \in hmLive
    /\ hmLast.op = "get" => (hmLast.ok <=> hmLast.handle \in hmLive)
    /\ hmLast.op = "delete" => getThrows(hm, hmLast.handle)
    /\ hmLast.op = "create" =>
          ~ getThrows(hm, hmLast.handle) /\ get(hm, hmLast.handle) = hmLast.value

\* C10 witness: get of a handle that create returned and delete released
\* has thrown, while another handle is live.
C10_Witness ==
    /\ hmLast.op = "get"
    /\ ~ hmLast.ok
    /\ hmLast.handle < hm.nextHandle
    /\ hmLive # {}

\* C11: the handles one table returns from successive create calls are
\* strictly increasing, the first is 1, and create never returns a handle
\* that is live in the table when it is called.
C11_CreateStrictlyIncreasing ==
    [][hmCreates' > hmCreates
         => /\ hmReturned' > hmReturned
            /\ hmCreates = 0 => hmReturned' = 1
            /\ hmReturned' \notin hmLive
            /\ ~ has(hm, hmReturned')
            /\ hmLast'.handle = hmReturned']_vars

\* C11 witness: create has returned a handle above 2 after earlier handles
\* were released, the table holding fewer instances than it has given out.
C11_Witness ==
    /\ hmLast.op = "create"
    /\ hmReturned >= 3
    /\ hmDeleted + hmCleared >= 1
    /\ size(hm) < hmReturned

\* C12 (as stated): delete returns true exactly when the handle was live
\* just before the call, and size is the number of creates minus the number
\* of deletes that returned true.
C12_SizeIsCreatesMinusDeletes ==
    /\ [][hmLast'.op = "delete" /\ hmCalls' > hmCalls
            => (hmLast'.ok <=> hmLast'.handle \in hmLive)]_vars
    /\ [](size(hm) = hmCreates - hmDeleted)

\* C12 (amended): delete returns true exactly when the handle was live just
\* before the call, and size is the number of live handles: the number of
\* creates minus the deletes that returned true and the instances removed by
\* clear.
C12_SizeIsLiveCount ==
    /\ [][hmLast'.op = "delete" /\ hmCalls' > hmCalls
            => (hmLast'.ok <=> hmLast'.handle \in hmLive)]_vars
    /\ [](/\ size(hm) = hmCreates - hmDeleted - hmCleared
          /\ size(hm) = Cardinality(hmLive)
          /\ hmLast.op = "size" => hmLast.value = Cardinality(hmLive))

\* C12 witness: size was read after a delete that returned true and a clear
\* that removed an instance, with an instance in the table.
C12_Witness ==
    /\ hmLast.op = "size"
    /\ hmLast.value >= 1
    /\ hmDeleted >= 1
    /\ hmCleared >= 1

\* C13: a request whose type the dispatcher has no case for is answered with
\* the unknown-operation failure; no native operation is invoked for it and
\* the handle tables and the instances stay as they are.
C13_UnknownTypeFails ==
    [][ReceiveStep /\ Head(toWorker).type \notin KnownTypes
         => /\ PostsFailure(Head(toWorker), {UnknownTypeMessage(Head(toWorker).type)})
            /\ nativeCalls' = nativeCalls
            /\ TablesUnchanged
            /\ UNCHANGED <<native, initialized, running>>]_vars

\* C13 witness: the initialized worker, holding a database and a list, has
\* answered a request with the unknown-operation failure.
C13_Witness ==
    /\ initialized
    /\ size(databaseHandles) >= 1
    /\ size(todoListHandles) >= 1
    /\ \E i \in 1 .. Len(toProxy) :
          /\ ~ toProxy[i].success
          /\ toProxy[i].error[1].message = UnknownTypeMessage(UnknownType)

\* the proxy methods that change what a TodoList proxy shows of its list:
\* those that get a snapshot back, and set_title
StateChangingMethods == SnapshotTypes \cup {"set_title"}

\* the proxy method called in this step, "" when none is
CalledMethod ==
    IF DOMAIN awaiting' # DOMAIN awaiting /\ Len(futures') > Len(futures)
    THEN awaiting'[Len(futures')].method
    ELSE IF lastCall' # lastCall \/ (lists' # lists /\ ~ ArrivalStep)
    THEN lastCall'.method
    ELSE ""

\* C14: the snapshot a TodoList proxy caches changes only in the step in
\* which a successful response to a request made by that proxy arrives, and
\* then it is the snapshot that response carries, whole.
C14_SnapshotOnlyReplaced ==
    [][\A p \in 1 .. Len(lists) :
          lists'[p].snapshot # lists[p].snapshot
          => /\ ArrivalStep
             /\ Arrived.success
             /\ Arrived.id \in DOMAIN pendingRequests
             /\ pendingRequests[Arrived.id] \in DOMAIN awaiting
             /\ awaiting[pendingRequests[Arrived.id]].list = p
             /\ lists'[p].snapshot = Arrived.payload.snapshot]_vars

\* C15: every call of a TodoList proxy method that changes the state of the
\* list mints a MessageId, sends a request and suspends on its future, and
\* when the response arrives the cached snapshot is the one it carries.
C15_StateChangesRoundTrip ==
    [][/\ CalledMethod \in StateChangingMethods
          => /\ nextMessageId' = nextMessageId + 1
             /\ Len(toWorker') = Len(toWorker) + 1
             /\ Len(futures') \in DOMAIN awaiting'
             /\ lists' = lists
       /\ \A i \in DOMAIN awaiting :
             (/\ i \notin DOMAIN awaiting'
              /\ awaiting[i].method \in ListMethodTypes
              /\ futures'[i].state = "resolved")
             => lists'[awaiting[i].list].snapshot = delivered'.payload.snapshot]_vars

\* C16: a call of id, title, created_at, item_ids or item on a TodoList proxy
\* returns what the cached snapshot holds, sends no request, mints no
\* MessageId and leaves the pending map, the futures and the proxies as they
\* are.
C16_AccessorsServeFromSnapshot ==
    [][(CalledMethod \in ReadAccessors)
         => /\ LET snapshot == lists[lastCall'.list].snapshot
                   result   == lastCall'.result
               IN  /\ lastCall'.method = "title" => result.title = snapshot.title
                   /\ lastCall'.method \in {"id", "created_at"} =>
                         result.obj = snapshot.obj
                   /\ lastCall'.method \in {"item_ids", "item"} =>
                         (result.obj = snapshot.obj /\ result.rev = snapshot.rev)
            /\ UNCHANGED <<nextMessageId, toWorker, pendingRequests, futures,
                           lists, databases, awaiting>>]_vars

\* C16 witness: item_ids was called on a proxy whose snapshot a response to
\* add_item or the like had replaced, while a request was outstanding.
C16_Witness ==
    /\ lastCall.method = "item_ids"
    /\ lastCall.result.rev >= 1
    /\ lastCall.result = [lists[lastCall.list].snapshot EXCEPT !.title = ""]

\* C17: every response the worker posts has exactly one of the properties
\* payload and error: payload and no error when success is true, error (a
\* chain of at least one node) and no payload when success is false.
C17_PayloadXorError ==
    \A i \in 1 .. Len(toProxy) :
        LET response == toProxy[i]
        IN  /\ ("payload" \in response.keys) # ("error" \in response.keys)
            /\ response.success <=> "payload" \in response.keys
            /\ ~ response.success <=> "error" \in response.keys
            /\ "error" \in response.keys <=> response.error # <<>>
            /\ "payload" \notin response.keys => response.payload = NoPayload

\* C17 witness: the worker has answered the first two requests, and a
\* failure and a success whose payload property has no value are on their way.
C17_Witness ==
    /\ \E i \in 1 .. Len(toProxy) : ~ toProxy[i].success
    /\ \E i \in 1 .. Len(toProxy) :
          /\ toProxy[i].success
          /\ toProxy[i].payload = NoPayload
          /\ MapGet(posted, MessageIdOf(1)) = 1
          /\ MapGet(posted, MessageIdOf(2)) = 1

\* C18: a thrown value whose cause chain has n nodes is serialized into a
\* chain of n nodes and reconstructed as an Error whose errorChain has the n
\* messages, outermost first, and whose message is the first node's.
C18_ChainRoundTrip ==
    codec.stage = "rebuilt"
    => /\ Len(codec.response.error) = Len(codec.thrown)
       /\ Len(codec.error.errorChain) = Len(codec.thrown)
       /\ \A i \in 1 .. Len(codec.thrown) :
             /\ i <= Len(codec.error.errorChain)
             /\ codec.error.errorChain[i] = codec.thrown[i].message
       /\ codec.error.message = codec.thrown[1].message

\* C19: the Error the proxy rejects with for a failure response has an
\* errorChain of at least one entry and its message is the first entry; the
\* chain the worker serializes has at least one node.
C19_ChainNeverEmpty ==
    /\ codec.stage \in {"serialized", "rebuilt"} => Len(codec.response.error) >= 1
    /\ codec.stage = "rebuilt"
       => /\ Len(codec.error.errorChain) >= 1
          /\ codec.error.message = codec.error.errorChain[1]

\* C19 witness: an Error was reconstructed from a thrown value of three
\* nodes whose first message is empty.
C19_Witness ==
    /\ codec.stage = "rebuilt"
    /\ Len(codec.thrown) = 3
    /\ codec.thrown[1].message = ""
    /\ codec.error.errorChain = <<"Unknown error">>

\* C20: once a TodoList.free on a list handle was answered with success,
\* every request the worker takes after that which names the handle (save,
\* add_item, remove_item, set_item_description, set_item_completed, free)
\* is answered with the invalid-handle failure, no native operation invoked.
C20_FreedHandleStaysInvalid ==
    [][(/\ ReceiveStep
        /\ Head(toWorker).type \in ListHandleTypes
        /\ Head(toWorker).payload.handle \in released)
         => /\ PostsFailure(Head(toWorker),
                  {InvalidHandleMessage(Head(toWorker).payload.handle)})
            /\ nativeCalls' = nativeCalls
            /\ TablesUnchanged]_vars

\* C20 witness: a list handle was freed and a request that named it
\* afterwards was answered "Invalid handle" with that handle.
C20_Witness ==
    \E h \in released :
        /\ ~ has(todoListHandles, h)
        /\ \E i \in 1 .. Len(toProxy) :
              /\ ~ toProxy[i].success
              /\ toProxy[i].error[1].message = InvalidHandleMessage(h)

\* C21: of two mutating calls made on two list proxies without awaiting
\* either, each future is eventually settled - resolved when the worker
\* answers success - and a success puts in its own proxy the snapshot of its
\* own list as the worker holds it, with the change made, leaving the other
\* proxy as it is; and the worker changes a list only in handling a request
\* made on the handle of that list.
C21_ConcurrentMutationsNoCrossTalk ==
    /\ \A i \in 1 .. (MaxPairCalls + 1) :
          (i \in DOMAIN awaiting)
             ~> (/\ i \notin DOMAIN awaiting
                 /\ i <= Len(futures)
                 /\ futures[i].state # "pending")
    /\ [][\A i \in DOMAIN awaiting :
            (i \notin DOMAIN awaiting' /\ awaiting[i].method \in ListMutateTypes)
            => LET p == awaiting[i].list
               IN  /\ ArrivalStep
                   /\ Arrived.success <=> futures'[i].state = "resolved"
                   /\ ~ Arrived.success <=> futures'[i].state = "rejected"
                   /\ \A q \in 1 .. Len(lists) : q # p => lists'[q] = lists[q]
                   /\ lists'[p].handle = lists[p].handle
                   /\ ~ Arrived.success => lists'[p] = lists[p]
                   /\ Arrived.success =>
                         /\ lists'[p].snapshot.obj = lists[p].snapshot.obj
                         /\ lists'[p].snapshot.obj = get(todoListHandles, lists[p].handle)
                         /\ lists'[p].snapshot.rev > lists[p].snapshot.rev
                         /\ lists'[p].snapshot.rev = native.rev[lists[p].snapshot.obj]
                         /\ lists'[p].snapshot.title = lists[p].snapshot.title]_vars
    /\ [][\A list \in DOMAIN native.rev :
            native'.rev[list] # native.rev[list]
            => /\ native'.rev[list] = native.rev[list] + 1
               /\ \E frame \in running \cup
                       {[request |-> Head(toWorker), list |-> list, db |-> db] :
                           db \in {d \in 0 .. native.objects : toWorker # <<>>}} :
                     /\ frame.list = list
                     /\ frame.request.type \in ListMutateTypes
                     /\ get(todoListHandles, frame.request.payload.handle) = list
                     /\ MapGet(posted', frame.request.id) = 1]_vars

\* C21 witness: both proxies show their own list with one change each, the
\* call on the second list answered before the call on the first.
C21_Witness ==
    /\ Len(lists) = 2
    /\ lists[1].snapshot.obj # lists[2].snapshot.obj
    /\ lists[1].snapshot.rev = 1
    /\ lists[2].snapshot.rev = 1
    /\ awaiting = <<>>
    /\ delivered.payload.snapshot.obj = lists[1].snapshot.obj
    /\ nextMessageId = 7

\* C22: the init request is the first request the controller sends and the
\* only init it sends, and the native initialization it starts is the first
\* native call of the worker, made once.
C22_InitFirstAndOnce ==
    [][/\ Len(toWorker') > Len(toWorker)
          => (toWorker'[Len(toWorker')].type = "init" <=> nextMessageId = 1)
       /\ (ReceiveStep /\ Head(toWorker).type = "init")
          => /\ Head(toWorker).id = MessageIdOf(1)
             /\ nativeCalls = 0
             /\ nativeCalls' = 1
             /\ ~ initialized
             /\ running = {}]_vars

\* C22 witness: the worker was initialized by the first request and has run
\* native operations for later ones.
C22_Witness ==
    /\ initialized
    /\ MapGet(posted, MessageIdOf(1)) = 1
    /\ nextMessageId > 3
    /\ nativeCalls >= 3

\* the handling of the init request is suspended at `await wasm_init_fn()`
InitExecuting == \E frame \in running : frame.request.type = "init"

\* C23 (as stated): a request other than init that reaches the worker while
\* the init request is still executing is answered with the not-initialized
\* failure; it is neither executed nor held.
C23_DuringInitNotInitialized ==
    [][ReceiveStep /\ InitExecuting /\ Head(toWorker).type # "init"
         => /\ PostsFailure(Head(toWorker), {NotInitializedMessage})
            /\ nativeCalls' = nativeCalls
            /\ running' = running]_vars

\* C23 (amended): a request other than init that reaches the worker while
\* the init request is still executing is answered at once with a failure -
\* the not-initialized failure when its type is one the dispatcher knows, the
\* unknown-type failure otherwise; it is neither executed nor held.
C23_DuringInitFailsFast ==
    [][ReceiveStep /\ InitExecuting /\ Head(toWorker).type # "init"
         => /\ PostsFailure(Head(toWorker),
                  IF Head(toWorker).type \in KnownTypes
                  THEN {NotInitializedMessage}
                  ELSE {UnknownTypeMessage(Head(toWorker).type)})
            /\ nativeCalls' = nativeCalls
            /\ running' = running
            /\ TablesUnchanged
            /\ UNCHANGED <<native, initialized>>]_vars

\* C23 witness: init is still suspended at its native call, unanswered, and
\* a later request has already been answered with the not-initialized failure.
C23_Witness ==
    /\ InitExecuting
    /\ MapGet(posted, MessageIdOf(1)) = 0
    /\ \E i \in 1 .. Len(toProxy) :
          /\ toProxy[i].id # MessageIdOf(1)
          /\ ~ toProxy[i].success
          /\ toProxy[i].error[1].message = NotInitializedMessage

\* C24: no two distinct live worker-owned instances, database or list, have
\* the same handle value.
C24_HandleNamesOneInstance ==
    \A h \in 1 .. (MaxMessages + 1) :
        ~ /\ has(databaseHandles, h)
          /\ has(todoListHandles, h)
          /\ get(databaseHandles, h) # get(todoListHandles, h)

\* C25: for every list state, the snapshot the worker produces, read back
\* through the proxy getters, gives the id, title and created_at of the
\* list, its item ids in the same order and, for every item id, the item of
\* the list with all five fields (and no item for an id the list lacks).
C25_SnapshotRoundTrip ==
    snap.stage = "read"
    => /\ snap.read.id = snap.list.id
       /\ snap.read.title = snap.list.title
       /\ snap.read.createdAt = snap.list.createdAt
       /\ snap.read.itemIds = list_item_ids(snap.list)
       /\ \A item_id \in ItemIdChoices :
             snap.read.items[item_id] = list_item(snap.list, item_id)

\* C25 witness: a list of two items, the larger id first, one of them
\* completed with an empty description, was read back through the proxy.
C25_Witness ==
    /\ snap.stage = "read"
    /\ Len(snap.list.items) = 2
    /\ snap.list.items[1].id = LargeId
    /\ snap.list.items[2].id = 1
    /\ snap.list.items[2].isCompleted
    /\ snap.list.items[2].description = ""
    /\ snap.read.itemIds = <<LargeId, 1>>

\* C30: when serializeTodoList has returned or thrown, no item object it
\* obtained remains unfreed.
C30_NoItemLeftUnfreed ==
    snap.stage \in {"returned", "threw", "read"} => snap.held = {}

\* this step posts a response
AnswerStep == Len(toProxy') = Len(toProxy) + 1

\* the response this step posts
Answer == toProxy'[Len(toProxy')]

\* the handleMessage call that returns in this step: the one begun in it,
\* or the suspended one that is resumed
Answered ==
    IF toWorker' # toWorker
    THEN [request |-> Head(toWorker),
          list    |-> Prologue(Head(toWorker)).list,
          db      |-> Prologue(Head(toWorker)).db]
    ELSE CHOOSE frame \in running : frame \notin running'

CreatingTypes == {"Database.connect", "TodoList.new", "TodoList.load"}

StateAffectingTypes ==
    {"TodoList.new", "TodoList.load", "TodoList.save", "TodoList.add_item",
     "TodoList.remove_item", "TodoList.set_item_description",
     "TodoList.set_item_completed"}

\* C26: a success response carries a handle exactly when its request is
\* Database.connect, TodoList.new or TodoList.load, and the success response
\* of new, load, save, add_item, remove_item, set_item_description and
\* set_item_completed carries the snapshot of the list instance of the
\* request as the instance is when the response is made.
C26_HandleAndSnapshotInPayload ==
    [][AnswerStep /\ Answer.success
         => LET type     == Answered.request.type
                instance == IF type \in ListCreateTypes
                            THEN get(todoListHandles', Answer.payload.handle)
                            ELSE Answered.list
            IN  /\ Truthy(Answer.payload.handle) <=> type \in CreatingTypes
                /\ type \in StateAffectingTypes
                   => /\ instance \in DOMAIN native'.rev
                      /\ Answer.payload.snapshot =
                            [obj   |-> instance,
                             rev   |-> native'.rev[instance],
                             title |-> native'.title[instance]]]_vars

\* C26 witness: the worker has answered a TodoList.new with a handle and a
\* snapshot and then a change of that list with a snapshot and no handle.
C26_Witness ==
    \E i, j \in 1 .. Len(toProxy) :
        /\ i < j
        /\ toProxy[i].success
        /\ Truthy(toProxy[i].payload.handle)
        /\ toProxy[i].payload.snapshot.obj # 0
        /\ toProxy[i].payload.snapshot.rev = 0
        /\ toProxy[j].success
        /\ ~ Truthy(toProxy[j].payload.handle)
        /\ toProxy[j].payload.snapshot.obj = toProxy[i].payload.snapshot.obj
        /\ toProxy[j].payload.snapshot.rev = 1

\* the requests whose native call writes to the database
WriteTypes ==
    {"TodoList.save", "TodoList.add_item", "TodoList.remove_item", "apply_schema",
     "Database.delete"}

\* C27: db.export() of a Database.readDatabaseFile request never runs while
\* a write to that database begun by another request is not yet completed.
C27_ExportNotDuringWrite ==
    [][(/\ ReceiveStep
        /\ Head(toWorker).type = "Database.readDatabaseFile"
        /\ nativeCalls' = nativeCalls + 1)
         => \A frame \in running :
               ~ /\ frame.request.type \in WriteTypes
                 /\ frame.db = Prologue(Head(toWorker)).db]_vars

\* the handles a table holds
Handles(table) == {h \in 1 .. table.nextHandle : has(table, h)}

\* C28: a handle enters a handle table only in the step that answers a
\* Database.connect, TodoList.new or TodoList.load with success and leaves
\* it only in the step that answers a TodoList.free with success; no other
\* request and no failure adds or removes a handle.
C28_TablesChangeOnlyOnSuccess ==
    [][/\ Handles(databaseHandles') \ Handles(databaseHandles) # {}
          => /\ AnswerStep
             /\ Answer.success
             /\ Answered.request.type = "Database.connect"
       /\ Handles(todoListHandles') \ Handles(todoListHandles) # {}
          => /\ AnswerStep
             /\ Answer.success
             /\ Answered.request.type \in ListCreateTypes
       /\ Handles(databaseHandles) \ Handles(databaseHandles') = {}
       /\ Handles(todoListHandles) \ Handles(todoListHandles') # {}
          => /\ AnswerStep
             /\ Answer.success
             /\ Answered.request.type = "TodoList.free"]_vars

\* the ids of the requests sent so far: each is still on its way to the
\* worker, being handled, answered, or pending in the proxy
EarlierIds ==
    {toWorker[i].id : i \in 1 .. Len(toWorker)}
    \cup {frame.request.id : frame \in running}
    \cup DOMAIN posted
    \cup DOMAIN pendingRequests

\* C29: the MessageId sendRequest mints differs from the id of every request
\* sent before, and registering the pending request leaves the record of
\* every other outstanding request as it was.
C29_FreshMessageId ==
    [][Len(toWorker') > Len(toWorker)
         => LET id == toWorker'[Len(toWorker')].id
            IN  /\ id \notin EarlierIds
                /\ id \in DOMAIN pendingRequests'
                /\ \A other \in DOMAIN pendingRequests :
                      /\ other \in DOMAIN pendingRequests'
                      /\ pendingRequests'[other] = pendingRequests[other]]_vars

\* C29 witness: two requests are outstanding, each with its own future,
\* after earlier requests have been answered and removed.
C29_Witness ==
    /\ nextMessageId > 4
    /\ Cardinality(DOMAIN pendingRequests) = 2
    /\ \E a, b \in DOMAIN pendingRequests :
          a # b /\ pendingRequests[a] # pendingRequests[b]
    /\ \E id \in DOMAIN posted : id \notin DOMAIN pendingRequests

\* C31: in every snapshot serializeTodoList returns, each identifier in
\* itemIds has a record in items with all five fields of that item, and
\* items has no key that is not in itemIds.
C31_ItemsMatchItemIds ==
    snap.stage \in {"returned", "read"}
    => LET snapshot == snap.snapshot
           ids      == {snapshot.itemIds[k] : k \in 1 .. Len(snapshot.itemIds)}
       IN  /\ DOMAIN snapshot.items = ids
           /\ \A k \in 1 .. Len(snapshot.itemIds) :
                 /\ snapshot.itemIds[k] \in DOMAIN snapshot.items
                 /\ snapshot.items[snapshot.itemIds[k]] \in
                       [id : {snapshot.itemIds[k]}, listId : {snap.list.id},
                        description : Descriptions, isCompleted : BOOLEAN,
                        createdAt : Timestamps]
                 /\ snapshot.items[snapshot.itemIds[k]] = snap.list.items[k]

\* C31 witness: serializeTodoList has returned the snapshot of a list of two
\* items, a record made for each.
C31_Witness ==
    /\ snap.stage = "returned"
    /\ Len(snap.snapshot.itemIds) = 2
    /\ snap.obtained = 2
    /\ snap.snapshot.itemIds[1] > snap.snapshot.itemIds[2]

\* C32: a success response to a call on a list proxy puts its snapshot in
\* the proxy when it arrives and a failure leaves the proxy as it is, so
\* once all responses have arrived the cached snapshot is the one of the
\* last successful response to arrive.
C32_SnapshotInArrivalOrder ==
    /\ [][\A i \in DOMAIN awaiting :
            (i \notin DOMAIN awaiting' /\ awaiting[i].method \in ListMethodTypes)
            => /\ ArrivalStep
               /\ lists' = IF Arrived.success
                           THEN [lists EXCEPT ![awaiting[i].list].snapshot =
                                                  Arrived.payload.snapshot]
                           ELSE lists]_vars
    /\ []((/\ awaiting = <<>>
           /\ Len(lists) = 1
           /\ delivered.error = NoError
           /\ delivered.payload.snapshot # NoSnapshot)
            => lists[1].snapshot = delivered.payload.snapshot)

\* C32 witness: two changes were requested of one list, the answer to the
\* first arrived after the answer to the second, and the proxy shows the
\* snapshot of the answer to the first.
C32_Witness ==
    /\ Len(lists) = 1
    /\ awaiting = <<>>
    /\ pendingRequests = <<>>
    /\ nextMessageId = 6
    /\ delivered.future = 4
    /\ delivered.error = NoError
    /\ futures[5].state = "resolved"
    /\ lists[1].snapshot = delivered.payload.snapshot
    /\ lists[1].snapshot.rev = 2

\* C33: TodoList.free never frees a list instance while the handling of
\* another request on that instance is suspended at its native call, to
\* resume on the freed instance.
C33_NoFreeDuringRequest ==
    [][native'.freed # native.freed
         => \A frame \in running : frame.list \notin native'.freed]_vars

\* C34: a TodoList.new or TodoList.load request that is answered with a
\* failure leaves the list handle table with the handles it had, so every
\* live list handle is one a success response carried.
C34_FailedCreateLeavesNoHandle ==
    [][(/\ AnswerStep
        /\ ~ Answer.success
        /\ Answered.request.type \in ListCreateTypes)
         => Handles(todoListHandles') = Handles(todoListHandles)]_vars

\* C35: a TodoList proxy with no request outstanding, whose most recent
\* round trip succeeded (the last response delivered is a success carrying
\* the snapshot of its list), caches the snapshot the worker would now make
\* of the instance behind its handle.
C35_IdleProxyMatchesWorker ==
    \A p \in 1 .. Len(lists) :
        (/\ \A i \in DOMAIN awaiting : awaiting[i].list # p
         /\ delivered.error = NoError
         /\ delivered.payload.snapshot # NoSnapshot
         /\ delivered.payload.snapshot.obj = lists[p].snapshot.obj
         /\ has(todoListHandles, lists[p].handle))
        => lists[p].snapshot =
              serializeTodoList(native, get(todoListHandles, lists[p].handle))

\* the methods of a TodoList proxy that load or change a list
LoadingOrMutatingTypes == ListMethodTypes \cup ListCreateTypes

\* C36 (as stated): when the request of a mutating or loading proxy method
\* ends in a failure response, the method rejects and the proxy has the
\* handle and the cached snapshot it had before the call.
C36_FailureRestoresProxy ==
    [][\A i \in DOMAIN awaiting :
          (/\ i \notin DOMAIN awaiting'
           /\ awaiting[i].method \in LoadingOrMutatingTypes
           /\ ~ Arrived.success)
          => /\ futures'[i].state = "rejected"
             /\ Len(lists') = Len(lists)
             /\ awaiting[i].list # 0 => lists'[awaiting[i].list] = awaiting[i].before]_vars

\* C36 (amended): when the request of a mutating or loading proxy method
\* ends in a failure response, the method rejects and the arrival of the
\* failure leaves every proxy, its handle and its cached snapshot, as it
\* was; the handle is the one the proxy had before the call.
C36_FailureLeavesProxy ==
    [][\A i \in DOMAIN awaiting :
          (/\ i \notin DOMAIN awaiting'
           /\ awaiting[i].method \in LoadingOrMutatingTypes
           /\ ~ Arrived.success)
          => /\ ArrivalStep
             /\ futures'[i].state = "rejected"
             /\ lists' = lists
             /\ databases' = databases
             /\ awaiting[i].list # 0
                => lists'[awaiting[i].list].handle = awaiting[i].before.handle]_vars

\* C36 witness: a call on the list proxy was rejected after the answer to
\* another call on it had replaced the snapshot the proxy had when the
\* rejected call was made.
C36_Witness ==
    /\ Len(lists) = 1
    /\ delivered.future >= 4
    /\ delivered.error # NoError
    /\ futures[delivered.future].state = "rejected"
    /\ delivered.future \notin DOMAIN awaiting
    /\ lists[1].snapshot.rev >= 1
    /\ \E j \in 1 .. Len(futures) : j > delivered.future /\ futures[j].state = "resolved"

\* C37: once the first init request is answered, wasm_init throws 'Worker
\* already initialized' (worker is set) only if that init succeeded; after a
\* failed init the controller can call wasm_init again.
C37_AlreadyInitializedOnlyAfterSuccess ==
    (/\ worker
     /\ Len(futures) >= 1
     /\ futures[1].state # "pending")
    => futures[1].state = "resolved"

\* C38: the next-handle counter of a table never decreases under create,
\* delete and clear, every handle the table has returned is below it, and
\* create returns the counter: so a handle once deleted (or cleared) is never
\* returned again.
C38_DeletedHandleNeverReturned ==
    /\ [][/\ hm'.nextHandle >= hm.nextHandle
           /\ hmCreates' > hmCreates
              => /\ hmReturned' = hm.nextHandle
                 /\ hm'.nextHandle = hm.nextHandle + 1
                 /\ \A h \in 1 .. (hm.nextHandle - 1) : h # hmReturned']_vars
    /\ [](/\ hmReturned < hm.nextHandle
          /\ \A h \in hmLive : h < hm.nextHandle)

\* C38 witness: after a delete that removed a handle and a clear that
\* removed another, create has returned a handle above both.
C38_Witness ==
    /\ hmLast.op = "create"
    /\ hmDeleted >= 1
    /\ hmCleared >= 1
    /\ hmReturned = 3
    /\ hmLive = {3}

\* C39: whenever AppState.currentList is non-null, no loadList is in
\* progress and no request is on its way, the handle of currentList is live
\* in the worker's list handle table.
C39_CurrentListIsLive ==
    (/\ app.currentList # 0
     /\ app.loading = 0
     /\ pendingRequests = <<>>)
    => has(todoListHandles, lists[app.currentList].handle)

====
